---------------------------- MODULE Spec2Model ----------------------------
(***************************************************************************)
(* Model of the video + narration pipeline of src/index.js: the /upload    *)
(* handler (lines 75-168), the subtitle builder generateSrt/formatTime     *)
(* (lines 46-72) and the periodic retention sweep (lines 209-233).         *)
(*                                                                         *)
(* Time of day is counted in sweep intervals (5 minutes); media time is    *)
(* counted in ticks, TicksPerMs ticks to the millisecond, so that the      *)
(* division duration / lines.length of line 63 is exact for up to six      *)
(* lines and sub-millisecond values exist for formatTime to truncate.      *)
(***************************************************************************)
EXTENDS Integers, Sequences, FiniteSets, TLC

VARIABLES
    pc,            \* position of the request handler
    hasVideo,      \* req.file is set (multer stored an upload)
    canonical,     \* the upload already is MP4/H.264 within the width bound
    hasText,       \* req.body.text is present
    text,          \* req.body.text, a sequence of characters
    chunkSize,     \* third argument of generateSrt
    audioDuration, \* result of getAudioDuration, in ticks (0: not probed)
    cues,          \* blocks of the subtitle text generateSrt returned
    files,         \* files present in uploads/, assets/, subtitles/, output/
    mtime,         \* last modification time of each file, in sweep intervals
    resCalls,      \* statuses the handler passed to res.status()/res.writeHead()
    started,       \* pipeline stages started, in order
    signals,       \* completion signals of the stages, in order
    composeVideo,  \* the video path given to the compositor
    inputsOk,      \* the compositor found its three inputs when it started
    ttsResponse,   \* what the synthesis provider answered
    now,           \* Date.now(), in sweep intervals
    sweepNow,      \* `now` captured by the running sweep tick
    sweepList,     \* folders whose readdir callback is pending
    sweepStat,     \* files whose stat callback is pending
    sweepUnlink,   \* files whose unlink is pending
    sweepErr,      \* "unlink_enoent" once an unlink of the running tick found
                   \* its file gone, else "none"
    swept          \* files the sweep has unlinked

vars == << pc, hasVideo, canonical, hasText, text, chunkSize, audioDuration,
           cues, files, mtime, resCalls, started, signals, composeVideo,
           inputsOk, ttsResponse, now, sweepNow, sweepList, sweepStat,
           sweepUnlink, sweepErr, swept >>

(***************************************************************************)
(* Bounds                                                                  *)
(***************************************************************************)
MaxLen == 4          \* longest enumerated narration text, in characters
MaxChunk == 3        \* largest enumerated chunk size besides the default
MaxDurSteps == 5     \* probed durations are 1..MaxDurSteps steps of DurStepMs
MaxTime == 3         \* sweep intervals the clock may advance

(***************************************************************************)
(* Units                                                                   *)
(***************************************************************************)
TicksPerMs == 3 * 4 * 5
TicksPerSec == 1000 * TicksPerMs
Ms(n) == n * TicksPerMs
DurStepMs == 100 * 7

(***************************************************************************)
(* Text: characters, sanitising (line 59), splitting and joining           *)
(***************************************************************************)
\* "a", "b" stand for word characters, " " is the space, "\n" the line feed
\* (whitespace, so kept by \s), "@" stands for any character outside the
\* allow-list [\w\s.,!?'"()-].
Chars == {"a", "b", " ", "\n", "@"}
AllowedChars == {"a", "b", "c", "d", "e", "f", "g", " ", "\n", ".", ","}

RECURSIVE SeqsUpTo(_, _)
SeqsUpTo(S, n) ==
    IF n = 0 THEN {<< >>}
    ELSE LET shorter == SeqsUpTo(S, n - 1)
         IN  shorter \cup {Append(s, c) : s \in {t \in shorter : Len(t) = n - 1}, c \in S}

\* text.replace(/[^\w\s.,!?'"()-]/g, "")
RECURSIVE Sanitize(_)
Sanitize(t) ==
    IF t = << >> THEN << >>
    ELSE IF Head(t) \in AllowedChars THEN << Head(t) >> \o Sanitize(Tail(t))
    ELSE Sanitize(Tail(t))

\* String.prototype.split(" "): every single space separates, so "" gives [""]
\* and consecutive spaces give empty strings.
RECURSIVE SplitAcc(_, _)
SplitAcc(t, cur) ==
    IF t = << >> THEN << cur >>
    ELSE IF Head(t) = " " THEN << cur >> \o SplitAcc(Tail(t), << >>)
    ELSE SplitAcc(Tail(t), Append(cur, Head(t)))

Split(t) == SplitAcc(t, << >>)

\* Array.prototype.join(" ")
RECURSIVE Join(_)
Join(ws) ==
    IF ws = << >> THEN << >>
    ELSE IF Len(ws) = 1 THEN ws[1]
    ELSE ws[1] \o << " " >> \o Join(Tail(ws))

\* Variant of the slice of line 61 that ends one word early.
SliceShort(ws, i, n) ==
    SubSeq(ws, i + 1, IF i + n - 1 < Len(ws) THEN i + n - 1 ELSE Len(ws))

\* words.slice(i, i + chunkSize), i counted from 0
Slice(ws, i, n) ==
    SubSeq(ws, i + 1, IF i + n < Len(ws) THEN i + n ELSE Len(ws))

Max(a, b) == IF a >= b THEN a ELSE b

(***************************************************************************)
(* formatTime (lines 46-50)                                                *)
(***************************************************************************)
\* new Date(sec*1000).toISOString().substr(11,8): the time of day of the
\* truncated millisecond count; String(Math.floor((sec%1)*1000)): the
\* truncated millisecond fraction.
formatTime(sec) ==
    LET millis == sec \div TicksPerMs
    IN  [ hh |-> (millis \div 3600000) % 24,
          mm |-> (millis \div 60000) % 60,
          ss |-> (millis \div 1000) % 60,
          ms |-> (sec % TicksPerSec) \div TicksPerMs ]

(***************************************************************************)
(* generateSrt (lines 58-72)                                               *)
(***************************************************************************)
DefaultChunkSize == 6
Buffer == Ms(150)
MinLineDuration == Ms(500)

\* line 59
Words(t) == Split(Sanitize(t))

\* lines 60-61
RECURSIVE LinesFrom(_, _, _)
LinesFrom(ws, i, n) ==
    IF i >= Len(ws) THEN << >>
    ELSE << Join(Slice(ws, i, n)) >> \o LinesFrom(ws, i + n, n)

Lines(t, n) == LinesFrom(Words(t), 0, n)

\* Variant of line 63 without Math.max(..., 0.5).
LineDurationNoFloor(duration, nLines) == (duration \div nLines) - Buffer

\* Variant of line 63 that forgets to take the buffer off the share.
LineDurationNoBuffer(duration, nLines) ==
    Max(duration \div nLines, MinLineDuration)

\* line 63
LineDuration(duration, nLines) ==
    Max((duration \div nLines) - Buffer, MinLineDuration)

\* line 68
NextStart(endTime) == endTime + Buffer

\* lines 64-70: the (startTime, endTime) of every line
RECURSIVE CueTimesFrom(_, _, _)
CueTimesFrom(k, startTime, lineDuration) ==
    IF k = 0 THEN << >>
    ELSE LET endTime == startTime + lineDuration
         IN  << [startTime |-> startTime, endTime |-> endTime] >>
             \o CueTimesFrom(k - 1, NextStart(endTime), lineDuration)

CueTimes(t, duration, n) ==
    LET nLines == Len(Lines(t, n))
    IN  CueTimesFrom(nLines, 0, LineDuration(duration, nLines))

\* lines 65-71: the blocks of the subtitle text; startTime and endTime are
\* the loop's numbers that start and end render.
generateSrt(t, duration, n) ==
    LET lines == Lines(t, n)
        times == CueTimes(t, duration, n)
    IN  [ i \in 1..Len(lines) |->
            [ index |-> i,
              startTime |-> times[i].startTime,
              endTime   |-> times[i].endTime,
              start |-> formatTime(times[i].startTime),
              end   |-> formatTime(times[i].endTime),
              line  |-> lines[i] ] ]

\* lines 67 and 70: the text of the blocks, as the rows the line feeds cut
\* it into. A block is its index row, its time row, the rows of its line
\* and, from its final "\n" and the "\n" that joins the blocks (or ends the
\* text), one empty row.
Row(kind, val, start, end, chars) ==
    [ kind |-> kind, val |-> val, start |-> start, end |-> end, chars |-> chars ]

NoTime == formatTime(0)

TextRow(chars) == Row("text", 0, NoTime, NoTime, chars)

RECURSIVE SplitNlAcc(_, _)
SplitNlAcc(t, cur) ==
    IF t = << >> THEN << TextRow(cur) >>
    ELSE IF Head(t) = "\n" THEN << TextRow(cur) >> \o SplitNlAcc(Tail(t), << >>)
    ELSE SplitNlAcc(Tail(t), Append(cur, Head(t)))

RECURSIVE SrtRows(_)
SrtRows(blocks) ==
    IF blocks = << >> THEN << >>
    ELSE LET b == Head(blocks)
         IN  << Row("index", b.index, NoTime, NoTime, << >>),
                Row("time", 0, b.start, b.end, << >>) >>
             \o SplitNlAcc(b.line, << >>)
             \o << TextRow(<< >>) >>
             \o SrtRows(Tail(blocks))

(***************************************************************************)
(* Files                                                                   *)
(***************************************************************************)
\* One request creates one file per role: videoFile.path (line 35),
\* convertedPath (84), audioPath (103), srtPath (116), outputPath (123).
Roles == {"raw", "converted", "audio", "srt", "output"}
Folders == {"uploads", "assets", "subtitles", "output"}

Folder(f) ==
    CASE f \in {"raw", "converted"} -> "uploads"
      [] f = "audio" -> "assets"
      [] f = "srt" -> "subtitles"
      [] f = "output" -> "output"

Touch(f) == [mtime EXCEPT ![f] = now]

(***************************************************************************)
(* Inputs                                                                  *)
(***************************************************************************)
Texts == SeqsUpTo(Chars, MaxLen)
            \cup {<< "a", " ", "b", " ", "c", " ", "d", " ", "e", " ", "f", " ", "g" >>}
Durations == {Ms(DurStepMs * k) : k \in 1..MaxDurSteps} \cup {Ms(10000)}
ChunkSizes == 1..MaxChunk \cup {DefaultChunkSize}

\* Texts of the requests of the pipeline: "", one with no word character,
\* a two-word one.
ReqTexts == {<< >>, << "@" >>, << "a", " ", "b" >>}
ProbeDurations == {Ms(DurStepMs), Ms(10000)}
TtsResponses == {"ok", "non2xx", "empty"}

(***************************************************************************)
(* The /upload handler (lines 75-168)                                      *)
(***************************************************************************)
headersSent == resCalls # << >>

\* lines 164-167
Catch ==
    /\ resCalls' = IF headersSent THEN resCalls ELSE Append(resCalls, 500)
    /\ pc' = "done"

sweepVars == << now, sweepNow, sweepList, sweepStat, sweepUnlink, sweepErr,
               swept >>
inputVars == << hasVideo, canonical, hasText, text, chunkSize >>

\* Variant of line 79 without `return`: the 400 is sent and the handler goes
\* on (videoFile.path throws when there is no upload).
ValidateFallsThrough ==
    /\ pc = "received"
    /\ resCalls' = IF ~hasVideo \/ ~hasText \/ text = << >>
                   THEN Append(resCalls, 400) ELSE resCalls
    /\ IF hasVideo
       THEN /\ started' = Append(started, "normalize")
            /\ pc' = "await_convert"
       ELSE /\ pc' = "done"
            /\ UNCHANGED started
    /\ UNCHANGED << inputVars, audioDuration, cues, files, mtime, signals,
                    composeVideo, inputsOk, ttsResponse, sweepVars >>

\* lines 77-97: validation, then the transcode of Stage 1 is started
Validate ==
    /\ pc = "received"
    /\ IF ~hasVideo \/ ~hasText \/ text = << >>
       THEN /\ resCalls' = Append(resCalls, 400)
            /\ pc' = "done"
            /\ UNCHANGED started
       ELSE /\ started' = Append(started, "normalize")
            /\ pc' = "await_convert"
            /\ UNCHANGED resCalls
    /\ UNCHANGED << inputVars, audioDuration, cues, files, mtime, signals,
                    composeVideo, inputsOk, ttsResponse, sweepVars >>

\* line 95, then lines 99-105: the upload is unlinked and the fetch started
ConvertEnd ==
    /\ pc = "await_convert"
    /\ signals' = Append(signals, << "normalize", "ok" >>)
    /\ mtime' = Touch("converted")
    /\ IF "raw" \in files
       THEN /\ files' = (files \cup {"converted"}) \ {"raw"}
            /\ started' = Append(started, "synthesize")
            /\ pc' = "await_fetch"
            /\ UNCHANGED resCalls
       ELSE /\ files' = files \cup {"converted"}
            /\ Catch
            /\ UNCHANGED started
    /\ UNCHANGED << inputVars, audioDuration, cues, composeVideo, inputsOk,
                    ttsResponse, sweepVars >>

\* Variant of line 96 that swallows the error (.on("error", resolve)).
ConvertErrorContinues ==
    /\ pc = "await_convert"
    /\ signals' = Append(signals, << "normalize", "fail" >>)
    /\ started' = Append(started, "synthesize")
    /\ pc' = "await_fetch"
    /\ UNCHANGED << inputVars, audioDuration, cues, files, mtime, resCalls,
                    composeVideo, inputsOk, ttsResponse, sweepVars >>

\* line 96: the engine failed; it may leave a partial output file behind
ConvertError ==
    /\ pc = "await_convert"
    /\ signals' = Append(signals, << "normalize", "fail" >>)
    /\ \E partial \in BOOLEAN :
          /\ files' = IF partial THEN files \cup {"converted"} ELSE files
          /\ mtime' = IF partial THEN Touch("converted") ELSE mtime
    /\ Catch
    /\ UNCHANGED << inputVars, audioDuration, cues, started, composeVideo,
                    inputsOk, ttsResponse, sweepVars >>

\* lines 105-108: fetch resolved, whatever the HTTP status; the audio file is
\* opened for writing and the body piped into it
FetchResolve ==
    /\ pc = "await_fetch"
    /\ \E r \in TtsResponses : ttsResponse' = r
    /\ files' = files \cup {"audio"}
    /\ mtime' = Touch("audio")
    /\ pc' = "await_write"
    /\ UNCHANGED << inputVars, audioDuration, cues, resCalls, started, signals,
                    composeVideo, inputsOk, sweepVars >>

\* line 105: fetch rejected (network failure)
FetchReject ==
    /\ pc = "await_fetch"
    /\ signals' = Append(signals, << "synthesize", "fail" >>)
    /\ Catch
    /\ UNCHANGED << inputVars, audioDuration, cues, files, mtime, started,
                    composeVideo, inputsOk, ttsResponse, sweepVars >>

\* line 110, then line 115: the file is written and the probe is started
WriteFinish ==
    /\ pc = "await_write"
    /\ signals' = Append(signals, << "synthesize", "ok" >>)
    /\ started' = Append(started, "probe")
    /\ mtime' = IF "audio" \in files THEN Touch("audio") ELSE mtime
    /\ pc' = "await_probe"
    /\ UNCHANGED << inputVars, audioDuration, cues, files, resCalls,
                    composeVideo, inputsOk, ttsResponse, sweepVars >>

\* line 109: the response body failed while being read
BodyError ==
    /\ pc = "await_write"
    /\ signals' = Append(signals, << "synthesize", "fail" >>)
    /\ Catch
    /\ UNCHANGED << inputVars, audioDuration, cues, files, mtime, started,
                    composeVideo, inputsOk, ttsResponse, sweepVars >>

\* lines 107-110: the write stream has no "error" listener and the promise
\* no path from it: the process dies of the unhandled "error" event, or the
\* promise stays pending for ever
WriteStreamError ==
    /\ pc = "await_write"
    /\ signals' = Append(signals, << "synthesize", "fail" >>)
    /\ \E outcome \in {"crashed", "hung"} : pc' = outcome
    /\ UNCHANGED << inputVars, audioDuration, cues, files, mtime, resCalls,
                    started, composeVideo, inputsOk, ttsResponse, sweepVars >>

\* Variant of lines 115-117 that times the cues from the text, half a second
\* a word (as lines 453-462 do), not from the probed duration.
ProbeDoneEstimated ==
    /\ pc = "await_probe"
    /\ "audio" \in files
    /\ ttsResponse = "ok"
    /\ \E d \in ProbeDurations :
          /\ audioDuration' = d
          /\ cues' = generateSrt(text, Len(Words(text)) * Ms(500), chunkSize)
    /\ files' = files \cup {"srt"}
    /\ mtime' = Touch("srt")
    /\ signals' = signals \o << << "probe", "ok" >>, << "cues", "ok" >> >>
    /\ started' = started \o << "cues", "compose" >>
    /\ composeVideo' = "converted"
    /\ inputsOk' = ({"converted", "audio"} \subseteq files)
    /\ pc' = "await_compose"
    /\ UNCHANGED << inputVars, resCalls, ttsResponse, sweepVars >>

\* lines 53-55 resolve, then lines 115-144: the subtitle file is generated
\* and written, the composition is started on convertedPath, audioPath, srtPath.
\* ffprobe resolves only for a file that exists and holds audio: an error
\* page or an empty body makes it fail (ProbeError).
ProbeDone ==
    /\ pc = "await_probe"
    /\ "audio" \in files
    /\ ttsResponse = "ok"
    /\ \E d \in ProbeDurations :
          /\ audioDuration' = d
          /\ cues' = generateSrt(text, d, chunkSize)
    /\ files' = files \cup {"srt"}
    /\ mtime' = Touch("srt")
    /\ signals' = signals \o << << "probe", "ok" >>, << "cues", "ok" >> >>
    /\ started' = started \o << "cues", "compose" >>
    /\ composeVideo' = "converted"
    /\ inputsOk' = ({"converted", "audio"} \subseteq files)
    /\ pc' = "await_compose"
    /\ UNCHANGED << inputVars, resCalls, ttsResponse, sweepVars >>

\* line 54: ffprobe failed
ProbeError ==
    /\ pc = "await_probe"
    /\ signals' = Append(signals, << "probe", "fail" >>)
    /\ Catch
    /\ UNCHANGED << inputVars, audioDuration, cues, files, mtime, started,
                    composeVideo, inputsOk, ttsResponse, sweepVars >>

\* lines 149-151: three unlinkSync in a row; the first absent file throws
Cleanup(fs) ==
    IF "converted" \notin fs THEN [ ok |-> FALSE, files |-> fs ]
    ELSE IF "audio" \notin fs THEN [ ok |-> FALSE, files |-> fs \ {"converted"} ]
    ELSE IF "srt" \notin fs
         THEN [ ok |-> FALSE, files |-> fs \ {"converted", "audio"} ]
    ELSE [ ok |-> TRUE, files |-> fs \ {"converted", "audio", "srt"} ]

\* line 142, then lines 146-162: cleanup, response head, the stream is started
ComposeEnd ==
    /\ pc = "await_compose"
    /\ inputsOk
    /\ signals' = Append(signals, << "compose", "ok" >>)
    /\ mtime' = Touch("output")
    /\ LET cleaned == Cleanup(files \cup {"output"})
       IN  /\ files' = cleaned.files
           /\ IF cleaned.ok
              THEN /\ resCalls' = Append(resCalls, 200)
                   /\ started' = Append(started, "stream")
                   /\ pc' = "streaming"
              ELSE /\ Catch
                   /\ UNCHANGED started
    /\ UNCHANGED << inputVars, audioDuration, cues, composeVideo, inputsOk,
                    ttsResponse, sweepVars >>

\* line 143: the engine failed; it may leave a partial output file behind
ComposeError ==
    /\ pc = "await_compose"
    /\ signals' = Append(signals, << "compose", "fail" >>)
    /\ \E partial \in BOOLEAN :
          /\ files' = IF partial THEN files \cup {"output"} ELSE files
          /\ mtime' = IF partial THEN Touch("output") ELSE mtime
    /\ Catch
    /\ UNCHANGED << inputVars, audioDuration, cues, started, composeVideo,
                    inputsOk, ttsResponse, sweepVars >>

\* line 162: the read stream closed after its end; unlinkSync throws inside
\* the listener when the file is gone, which nothing catches
StreamClose ==
    /\ pc = "streaming"
    /\ signals' = Append(signals, << "stream", "ok" >>)
    /\ IF "output" \in files
       THEN /\ files' = files \ {"output"}
            /\ pc' = "done"
       ELSE /\ pc' = "crashed"
            /\ UNCHANGED files
    /\ UNCHANGED << inputVars, audioDuration, cues, mtime, resCalls, started,
                    composeVideo, inputsOk, ttsResponse, sweepVars >>

\* Variant of lines 160-162 with an "error" listener that answers 500
\* without testing res.headersSent (as lines 496-499 do).
StreamErrorResponds ==
    /\ pc = "streaming"
    /\ signals' = Append(signals, << "stream", "fail" >>)
    /\ resCalls' = Append(resCalls, 500)
    /\ pc' = "done"
    /\ UNCHANGED << inputVars, audioDuration, cues, files, mtime, started,
                    composeVideo, inputsOk, ttsResponse, sweepVars >>

\* lines 160-162: the read stream has no "error" listener: a read error is an
\* unhandled "error" event and ends the process before "close" is delivered
StreamError ==
    /\ pc = "streaming"
    /\ signals' = Append(signals, << "stream", "fail" >>)
    /\ pc' = "crashed"
    /\ UNCHANGED << inputVars, audioDuration, cues, files, mtime, resCalls,
                    started, composeVideo, inputsOk, ttsResponse, sweepVars >>

\* line 161: the client went away; pipe() unpipes the read stream from the
\* closed response and does not destroy it, so it never ends nor closes
ClientDisconnect ==
    /\ pc = "streaming"
    /\ signals' = Append(signals, << "stream", "fail" >>)
    /\ pc' = "aborted"
    /\ UNCHANGED << inputVars, audioDuration, cues, files, mtime, resCalls,
                    started, composeVideo, inputsOk, ttsResponse, sweepVars >>

(***************************************************************************)
(* The retention sweep (lines 209-233)                                     *)
(***************************************************************************)
\* 10 * 60 * 1000 ms, in sweep intervals of 5 * 60 * 1000 ms
MaxAge == 2

requestVars == << pc, inputVars, audioDuration, cues, resCalls, started,
                  signals, composeVideo, inputsOk, ttsResponse >>

SweepIdle == sweepList = {} /\ sweepStat = {} /\ sweepUnlink = {}

\* lines 210-216: the interval elapses (the callbacks of one tick are over
\* long before the next one); the four readdir are issued
SweepTick ==
    /\ pc # "crashed"
    /\ now < MaxTime
    /\ SweepIdle
    /\ now' = now + 1
    /\ sweepNow' = now + 1
    /\ sweepList' = Folders
    /\ sweepErr' = "none"
    /\ UNCHANGED << requestVars, files, mtime, sweepStat, sweepUnlink, swept >>

\* lines 216-220: a readdir callback; on error nothing, else a stat per file
SweepReaddir(folder) ==
    /\ pc # "crashed"
    /\ folder \in sweepList
    /\ sweepList' = sweepList \ {folder}
    /\ \/ UNCHANGED sweepStat
       \/ sweepStat' = sweepStat \cup {f \in files : Folder(f) = folder}
    /\ UNCHANGED sweepErr
    /\ UNCHANGED << requestVars, files, mtime, now, sweepNow, sweepUnlink, swept >>

\* Variant of line 222 with >= for >.
StaleAtWindow(f) == sweepNow - mtime[f] >= MaxAge

\* line 222
Stale(f) == sweepNow - mtime[f] > MaxAge

\* lines 220-223: a stat callback; on error (the file is gone, or any other
\* failure) nothing, else the unlink is issued when the file is stale
SweepStat(f) ==
    /\ pc # "crashed"
    /\ f \in sweepStat
    /\ sweepStat' = sweepStat \ {f}
    /\ \/ UNCHANGED sweepUnlink
       \/ /\ f \in files
          /\ sweepUnlink' = IF Stale(f) THEN sweepUnlink \cup {f} ELSE sweepUnlink
    /\ UNCHANGED sweepErr
    /\ UNCHANGED << requestVars, files, mtime, now, sweepNow, sweepList, swept >>

\* Variant of lines 223-227 whose callback rethrows the error.
SweepUnlinkThrows(f) ==
    /\ f \in sweepUnlink
    /\ sweepUnlink' = sweepUnlink \ {f}
    /\ IF f \in files
       THEN /\ files' = files \ {f}
            /\ swept' = swept \cup {f}
            /\ UNCHANGED << sweepErr, pc >>
       ELSE /\ sweepErr' = "unlink_enoent"
            /\ pc' = "crashed"
            /\ UNCHANGED << files, swept >>
    /\ UNCHANGED << inputVars, audioDuration, cues, resCalls, started, signals,
                    composeVideo, inputsOk, ttsResponse, mtime, now, sweepNow,
                    sweepList, sweepStat >>

\* lines 223-227: the unlink and its callback; an error (the file is gone,
\* or any other failure) is ignored
SweepUnlink(f) ==
    /\ pc # "crashed"
    /\ f \in sweepUnlink
    /\ sweepUnlink' = sweepUnlink \ {f}
    /\ \/ /\ sweepErr' = IF f \in files THEN sweepErr ELSE "unlink_enoent"
          /\ UNCHANGED << files, swept >>
       \/ /\ f \in files
          /\ files' = files \ {f}
          /\ swept' = swept \cup {f}
          /\ UNCHANGED sweepErr
    /\ UNCHANGED << requestVars, mtime, now, sweepNow, sweepList, sweepStat >>

(***************************************************************************)
(* Specification of the pipeline                                           *)
(***************************************************************************)
Init ==
    /\ pc = "received"
    /\ hasVideo \in BOOLEAN
    /\ canonical \in BOOLEAN
    /\ hasText \in BOOLEAN
    /\ text \in ReqTexts
    /\ hasText \/ text = << >>
    /\ hasVideo \/ ~canonical
    /\ chunkSize = DefaultChunkSize
    /\ audioDuration = 0
    /\ cues = << >>
    /\ files = IF hasVideo THEN {"raw"} ELSE {}
    /\ mtime = [f \in Roles |-> 0]
    /\ resCalls = << >>
    /\ started = << >>
    /\ signals = << >>
    /\ composeVideo = "none"
    /\ inputsOk = FALSE
    /\ ttsResponse = "none"
    /\ now = 0
    /\ sweepNow = 0
    /\ sweepList = {}
    /\ sweepStat = {}
    /\ sweepUnlink = {}
    /\ sweepErr = "none"
    /\ swept = {}

Next ==
    \/ Validate
    \/ ConvertEnd
    \/ ConvertError
    \/ FetchResolve
    \/ FetchReject
    \/ WriteFinish
    \/ BodyError
    \/ WriteStreamError
    \/ ProbeDone
    \/ ProbeError
    \/ ComposeEnd
    \/ ComposeError
    \/ StreamClose
    \/ StreamError
    \/ ClientDisconnect
    \/ SweepTick
    \/ \E folder \in Folders : SweepReaddir(folder)
    \/ \E f \in Roles : SweepStat(f)
    \/ \E f \in Roles : SweepUnlink(f)

Spec == Init /\ [][Next]_vars

(***************************************************************************)
(* Specification of the subtitle builder alone                             *)
(***************************************************************************)
GenerateSrtCall ==
    /\ pc = "srt_call"
    /\ cues' = generateSrt(text, audioDuration, chunkSize)
    /\ pc' = "srt_done"
    /\ UNCHANGED << inputVars, audioDuration, files, mtime, resCalls, started,
                    signals, composeVideo, inputsOk, ttsResponse, sweepVars >>

InitSrt ==
    /\ pc = "srt_call"
    /\ hasVideo = FALSE
    /\ canonical = FALSE
    /\ hasText = TRUE
    /\ text \in Texts
    /\ chunkSize \in ChunkSizes
    /\ audioDuration \in Durations
    /\ cues = << >>
    /\ files = {}
    /\ mtime = [f \in Roles |-> 0]
    /\ resCalls = << >>
    /\ started = << >>
    /\ signals = << >>
    /\ composeVideo = "none"
    /\ inputsOk = FALSE
    /\ ttsResponse = "none"
    /\ now = 0
    /\ sweepNow = 0
    /\ sweepList = {}
    /\ sweepStat = {}
    /\ sweepUnlink = {}
    /\ sweepErr = "none"
    /\ swept = {}

NextSrt == GenerateSrtCall

SpecSrt == InitSrt /\ [][NextSrt]_vars

(***************************************************************************)
(* Vocabulary of the properties                                            *)
(***************************************************************************)
Range(s) == {s[i] : i \in 1..Len(s)}

StageOrder == << "normalize", "synthesize", "probe", "cues", "compose", "stream" >>

StageIndex(st) == CHOOSE k \in 1..Len(StageOrder) : StageOrder[k] = st

\* Words as the specification counts them: maximal runs of non-space
\* characters of the sanitised text.
IsSpace(c) == c \in {" ", "\n"}

WordCount(t) ==
    Cardinality({i \in 1..Len(t) : ~IsSpace(t[i]) /\ (i = 1 \/ IsSpace(t[i - 1]))})

\* Sanitised text: allowed characters only, whitespace collapsed and trimmed.
IsSanitized(t) ==
    /\ \A i \in 1..Len(t) : t[i] \in AllowedChars \ {"\n"}
    /\ \A i \in 1..Len(t) - 1 : ~(t[i] = " " /\ t[i + 1] = " ")
    /\ t # << >> => (t[1] # " " /\ t[Len(t)] # " ")

CeilDiv(a, b) == (a + b - 1) \div b

Accepted == started # << >>

(***************************************************************************)
(* C1                                                                      *)
(***************************************************************************)
\* C1: once an accepted request has terminated, none of the files it
\* created (upload, converted video, audio, subtitles, output) exists.
C1_NoArtifactAfterTermination ==
    (pc = "done" /\ Accepted) => files = {}

(***************************************************************************)
(* C2                                                                      *)
(***************************************************************************)
\* C2: when the engine signals an error during composition, the request
\* ends with the server-fault response, and the converted video, the audio,
\* the subtitle file and any output file are gone.
C2_ComposeErrorCleansUp ==
    (pc = "done" /\ << "compose", "fail" >> \in Range(signals))
        => /\ resCalls = << 500 >>
           /\ files \cap {"converted", "audio", "srt", "output"} = {}

(***************************************************************************)
(* C3                                                                      *)
(***************************************************************************)
\* C3: the stages start in the order normalize, synthesize, probe, cues,
\* compose, stream, each at most once, each only after the one before it
\* signalled success; a failure signal is the last signal of the request and
\* no stage after the failed one has been started.
C3_StrictStageOrder ==
    /\ Len(started) <= Len(StageOrder)
    /\ started = SubSeq(StageOrder, 1, Len(started))
    /\ \A k \in 2..Len(started) : << StageOrder[k - 1], "ok" >> \in Range(signals)
    /\ \A i \in 1..Len(signals) :
          /\ signals[i][1] = StageOrder[i]
          /\ signals[i][1] \in Range(started)
          /\ signals[i][2] = "fail"
                => /\ i = Len(signals)
                   /\ Len(started) = StageIndex(signals[i][1])

\* A stage in the middle of the pipeline failed and the request is over.
C3_Witness ==
    /\ pc = "done"
    /\ signals = << << "normalize", "ok" >>, << "synthesize", "ok" >>,
                    << "probe", "fail" >> >>
    /\ started = << "normalize", "synthesize", "probe" >>

(***************************************************************************)
(* C4                                                                      *)
(***************************************************************************)
\* C4: for non-empty sanitised text and a positive duration the builder
\* gives ceil(word_count / chunk_size) cues, numbered 1, 2, ..., each
\* starting one gap after the end of the one before, each at least the
\* minimum floor long.
C4_CueShape ==
    (pc = "srt_done" /\ text # << >> /\ IsSanitized(text) /\ audioDuration > 0)
        => /\ Len(cues) = CeilDiv(WordCount(text), chunkSize)
           /\ \A i \in 1..Len(cues) :
                 /\ cues[i].index = i
                 /\ cues[i].endTime - cues[i].startTime >= Ms(500)
           /\ \A i \in 1..Len(cues) - 1 :
                 cues[i + 1].startTime = cues[i].endTime + Ms(150)

\* Several cues whose proportional share is below the floor.
C4_Witness ==
    /\ pc = "srt_done"
    /\ text # << >>
    /\ IsSanitized(text)
    /\ Len(cues) >= 2
    /\ audioDuration \div Len(cues) - Ms(150) < Ms(500)
    /\ WordCount(text) % chunkSize # 0

(***************************************************************************)
(* C5                                                                      *)
(***************************************************************************)
\* C5: when the text of a request has no word, no subtitle file is written
\* and neither the synthesis nor the composition is started.
C5_NoWordsStopsPipeline ==
    (hasVideo /\ hasText /\ WordCount(Sanitize(text)) = 0)
        => /\ "synthesize" \notin Range(started)
           /\ "compose" \notin Range(started)
           /\ cues = << >>

(***************************************************************************)
(* C6                                                                      *)
(***************************************************************************)
\* C6: for an upload that already is canonical the normalisation stage
\* invokes no transcode and the compositor is given the upload itself.
C6_CanonicalSkipsTranscode ==
    canonical
        => /\ "normalize" \notin Range(started)
           /\ composeVideo # "converted"

(***************************************************************************)
(* C7                                                                      *)
(***************************************************************************)
\* C7: whichever way the stream of the output ended (end of file, read
\* error, client gone), the output file has been deleted.
C7_OutputDeletedWhenStreamEnds ==
    (\E i \in 1..Len(signals) : signals[i][1] = "stream")
        => "output" \notin files

(***************************************************************************)
(* C8                                                                      *)
(***************************************************************************)
\* C8: an artifact that is already absent when it is released never makes
\* a request whose composition succeeded answer with the failure response,
\* and the release after a stream that ended normally never raises.
C8_AbsentReleaseHarmless ==
    << "compose", "ok" >> \in Range(signals)
        => /\ 500 \notin Range(resCalls)
           /\ ~(pc = "crashed" /\ << "stream", "ok" >> \in Range(signals))

(***************************************************************************)
(* C9                                                                      *)
(***************************************************************************)
\* C9: a request is given at most one response status; in particular the
\* server-fault status is never written after a response has begun.
C9_SingleResponse ==
    Len(resCalls) <= 1

\* A failure after the response head was written.
C9_Witness ==
    /\ resCalls = << 200 >>
    /\ << "stream", "fail" >> \in Range(signals)
    /\ pc = "crashed"

(***************************************************************************)
(* C10                                                                     *)
(***************************************************************************)
\* C10: after a non-success or empty answer of the synthesis provider the
\* duration probe is never started.
C10_SynthesisFailureStops ==
    ttsResponse \in {"non2xx", "empty"} => "probe" \notin Range(started)

(***************************************************************************)
(* C11                                                                     *)
(***************************************************************************)
\* C11: a request without a video or without a (non-empty) text is answered
\* with the client-error status and no pipeline stage is ever started for it.
C11_MissingInputRejected ==
    (~hasVideo \/ ~hasText \/ text = << >>)
        => /\ started = << >>
           /\ signals = << >>
           /\ pc \in {"received", "done"}
           /\ pc = "done" => resCalls = << 400 >>

\* A request with a video and no text has been rejected.
C11_Witness ==
    /\ hasVideo
    /\ ~hasText
    /\ pc = "done"
    /\ resCalls = << 400 >>

(***************************************************************************)
(* C12                                                                     *)
(***************************************************************************)
CuesOrdered ==
    /\ \A i \in 1..Len(cues) : cues[i].startTime < cues[i].endTime
    /\ \A i \in 1..Len(cues) - 1 : cues[i].endTime <= cues[i + 1].startTime

\* The proportional share of a cue is not below the floor.
Unclamped == audioDuration \div Len(cues) - Ms(150) >= Ms(500)

\* C12 as stated: the cues are ordered, do not overlap, and the last one
\* ends no later than the narration, for every text, chunk size and duration.
C12_BoundedByDuration ==
    (pc = "srt_done" /\ audioDuration > 0 /\ text # << >> /\ IsSanitized(text))
        => /\ CuesOrdered
           /\ cues[Len(cues)].endTime <= audioDuration

\* C12 as amended: the cues are ordered and do not overlap; the last one
\* ends no later than the narration whenever the share of a cue,
\* duration / chunk_count - gap, is at least the floor.
C12_BoundedWhenUnclamped ==
    (pc = "srt_done" /\ audioDuration > 0)
        => /\ CuesOrdered
           /\ Unclamped => cues[Len(cues)].endTime <= audioDuration

\* Several cues, none clamped.
C12_Witness ==
    /\ pc = "srt_done"
    /\ Len(cues) >= 2
    /\ Unclamped
    /\ cues[Len(cues)].endTime <= audioDuration

(***************************************************************************)
(* C13                                                                     *)
(***************************************************************************)
\* Reading the timed-text format back: blank rows separate the blocks; a
\* block is an index row, a time row and the text rows up to the next blank
\* row, joined by line feeds. A block that does not start with an index row
\* and a time row is read as a cue of index 0.
IsBlank(r) == r.kind = "text" /\ r.chars = << >>

Millis(t) == ((t.hh * 60 + t.mm) * 60 + t.ss) * 1000 + t.ms

RECURSIVE TextRowsUntilBlank(_)
TextRowsUntilBlank(rows) ==
    IF rows = << >> \/ IsBlank(Head(rows)) THEN << >>
    ELSE << Head(rows) >> \o TextRowsUntilBlank(Tail(rows))

RECURSIVE JoinNl(_)
JoinNl(rows) ==
    IF rows = << >> THEN << >>
    ELSE IF Len(rows) = 1 THEN rows[1].chars
    ELSE rows[1].chars \o << "\n" >> \o JoinNl(Tail(rows))

RECURSIVE ParseSrt(_)
ParseSrt(rows) ==
    IF rows = << >> THEN << >>
    ELSE IF IsBlank(Head(rows)) THEN ParseSrt(Tail(rows))
    ELSE IF Len(rows) >= 2 /\ rows[1].kind = "index" /\ rows[2].kind = "time"
         THEN LET body == TextRowsUntilBlank(SubSeq(rows, 3, Len(rows)))
              IN  << [ index |-> rows[1].val,
                       start |-> Millis(rows[2].start),
                       end   |-> Millis(rows[2].end),
                       text  |-> JoinNl(body) ] >>
                  \o ParseSrt(SubSeq(rows, 3 + Len(body), Len(rows)))
         ELSE LET body == TextRowsUntilBlank(rows)
              IN  << [ index |-> 0, start |-> 0, end |-> 0, text |-> JoinNl(body) ] >>
                  \o ParseSrt(SubSeq(rows, 1 + Len(body), Len(rows)))

\* The cues the builder computed, with times cut to the millisecond.
CueTuples ==
    [ i \in 1..Len(cues) |->
        [ index |-> cues[i].index,
          start |-> cues[i].startTime \div TicksPerMs,
          end   |-> cues[i].endTime \div TicksPerMs,
          text  |-> cues[i].line ] ]

\* C13: parsing the emitted text gives back the cue sequence: same indices,
\* same lines, start and end equal to the computed times to the millisecond.
C13_RoundTrip ==
    pc = "srt_done" => ParseSrt(SrtRows(cues)) = CueTuples

(***************************************************************************)
(* C15                                                                     *)
(***************************************************************************)
\* C15: no step of the sweep, failing or not, raises into the process or
\* touches the state of a request or its response.
C15_SweepNeverRaises ==
    [][sweepVars' # sweepVars => UNCHANGED requestVars]_vars

\* The request unlinked its upload between the sweep's stat and its unlink,
\* which failed, and the request goes on.
C15_Witness ==
    /\ sweepErr = "unlink_enoent"
    /\ pc = "await_fetch"
    /\ "raw" \notin files
    /\ "raw" \notin swept

(***************************************************************************)
(* C16                                                                     *)
(***************************************************************************)
\* The words of a sanitised text, found by position: the k-th maximal run of
\* non-space characters.
WordStarts(t) ==
    {i \in 1..Len(t) : ~IsSpace(t[i]) /\ (i = 1 \/ IsSpace(t[i - 1]))}

SpecWord(t, k) ==
    LET first == CHOOSE i \in WordStarts(t) :
                     Cardinality({j \in WordStarts(t) : j <= i}) = k
        last  == CHOOSE j \in first..Len(t) :
                     /\ \A m \in first..j : ~IsSpace(t[m])
                     /\ j = Len(t) \/ IsSpace(t[j + 1])
    IN  SubSeq(t, first, last)

ScenarioText ==
    << "a", " ", "b", " ", "c", " ", "d", " ", "e", " ", "f", " ", "g" >>

\* C16: the lines are the words of the text in order, chunk_size to a line,
\* only the last line shorter; every cue lasts
\* max(duration / chunk_count - gap, floor); 7 words, chunk size 6 and 10 s
\* give the lines of 6 and 1 words, cue 1 = [0, 4.85) and cue 2 from 5.00.
C16_ChunksAndDurations ==
    (pc = "srt_done" /\ text # << >> /\ IsSanitized(text) /\ audioDuration > 0)
        => /\ \A i \in 1..Len(cues) :
                 /\ IsSanitized(cues[i].line)
                 /\ WordCount(cues[i].line)
                       = IF i < Len(cues) THEN chunkSize
                         ELSE WordCount(text) - (Len(cues) - 1) * chunkSize
                 /\ \A j \in 1..WordCount(cues[i].line) :
                       SpecWord(cues[i].line, j)
                           = SpecWord(text, (i - 1) * chunkSize + j)
                 /\ cues[i].endTime - cues[i].startTime
                       = Max(audioDuration \div Len(cues) - Ms(150), Ms(500))
           /\ (text = ScenarioText /\ chunkSize = 6 /\ audioDuration = Ms(10000))
                 => /\ Len(cues) = 2
                    /\ cues[1].line = SubSeq(ScenarioText, 1, 11)
                    /\ cues[2].line = << "g" >>
                    /\ cues[1].startTime = 0
                    /\ cues[1].endTime = Ms(4850)
                    /\ cues[2].startTime = Ms(5000)

\* The scenario of 7 words, chunk size 6, 10 s.
C16_Witness ==
    /\ pc = "srt_done"
    /\ text = ScenarioText
    /\ chunkSize = 6
    /\ audioDuration = Ms(10000)
    /\ Len(cues) = 2

(***************************************************************************)
(* C17                                                                     *)
(***************************************************************************)
\* C17: the probe is started only after the audio file was written to its
\* end, and cues exist only once the probe answered, timed from the duration
\* it measured.
C17_ProbedDurationDrivesCues ==
    /\ "probe" \in Range(started) => << "synthesize", "ok" >> \in Range(signals)
    /\ cues # << >>
          => /\ << "probe", "ok" >> \in Range(signals)
             /\ audioDuration \in ProbeDurations
             /\ \A i \in 1..Len(cues) :
                   cues[i].endTime - cues[i].startTime
                       = Max(audioDuration \div Len(cues) - Ms(150), Ms(500))

\* The cues were built from a probed duration of 10 s.
C17_Witness ==
    /\ pc = "await_compose"
    /\ cues # << >>
    /\ audioDuration = Ms(10000)

C19_EveryRequestAnswered ==
    (Accepted /\ pc \in {"done", "aborted", "crashed", "hung"})
        => /\ Len(resCalls) = 1
           /\ pc \notin {"crashed", "hung"}

=============================================================================
